---- MODULE Spec2Model ----
(***************************************************************************)
(* Model of OSSLDES (src/lib/crypto/OSSLDES.cpp): the DES / Triple-DES     *)
(* adapter over OpenSSL's EVP interface.                                   *)
(*                                                                         *)
(* wrapKey / unwrapKey are modelled step by step, one step per external    *)
(* EVP call, so that calls of several threads interleave.  getCipher and   *)
(* generateKey are synchronous and are modelled as one action each.        *)
(***************************************************************************)
EXTENDS Integers, Sequences, FiniteSets, TLC

VARIABLES
    withFips,   \* the build flag WITH_FIPS
    calls,      \* per thread: the wrapKey/unwrapKey call in progress or last returned
    ctxs,       \* the EVP_CIPHER_CTX heap
    misuse,     \* an EVP call was made on a context that is not live or not the caller's
    sel,        \* the last getCipher call and what it returned
    gen         \* the last generateKey call and what it did

vars == <<withFips, calls, ctxs, misuse, sel, gen>>

----------------------------------------------------------------------------
(* Program constants and bounds *)

\* DES block size as reported by EVP_CIPHER_CTX_block_size / getBlockSize
BlockSize == 8

\* minsize handed to checkLength by wrapKey and unwrapKey
MinWrapLen == 8

\* longest input buffer handed to wrapKey / unwrapKey
MaxLen == 17

\* the randomness source's outputs are numbered 0..MaxSeed
MaxSeed == 255

Threads == {"t1", "t2"}
CtxSlots == {"ctxA", "ctxB"}

----------------------------------------------------------------------------
(* ByteString *)

\* ByteString::resize: keeps the prefix, new bytes are zero
Resize(s, n) == [i \in 1..n |-> IF i <= Len(s) THEN s[i] ELSE 0]

\* bytes written by an EVP call at &out[0] + off
WriteAt(out, off, bytes) ==
    [i \in 1..Len(out) |->
        IF i > off /\ i <= off + Len(bytes) THEN bytes[i - off] ELSE out[i]]

AddB(a, b) == (a + b) % 256
SubB(a, b) == (a - b + 256) % 256

----------------------------------------------------------------------------
(* Keys: SymmetricKey with a declared bit length and raw bytes; a NULL     *)
(* pointer is the key with present = FALSE.                                *)

NoKey == [present |-> FALSE, bitLen |-> 0, keyBits |-> <<>>]

KeyBytes(n, salt) == [i \in 1..n |-> (salt + 29 * i) % 256]

MkKey(bits, bytes) == [present |-> TRUE, bitLen |-> bits, keyBits |-> bytes]

\* keys as the wrap callers build them: bit length = 8 * byte length
WrapKeys ==
    { NoKey } \cup
    { MkKey(8 * n, KeyBytes(n, 3 * n)) : n \in {7, 8, 16, 24, 25} }

SymWrapTypes == {"Unknown", "AES_KEYWRAP", "DES_KEYWRAP", "DES_CBC_KEYWRAP"}

SymModes == {"Unknown", "CBC", "CFB", "CTR", "ECB", "GCM", "OFB"}

NoCipher == "NULL"

----------------------------------------------------------------------------
(* Diagnostics: ERROR_MSG / DEBUG_MSG with the format and its argument *)

Msg(level, fmt, arg) == [level |-> level, fmt |-> fmt, arg |-> arg]

----------------------------------------------------------------------------
(* OSSLDES::checkLength *)

\* checkLength without the alignment test of lines 61-65
checkLength_noAlign(insize, minsize, operation) ==
    IF insize < minsize
    THEN [ok |-> FALSE,
          msgs |-> << Msg("error", "key data to %s too small", operation) >>]
    ELSE [ok |-> TRUE, msgs |-> << >>]

\* checkLength reporting both causes with the same message
checkLength_oneMsg(insize, minsize, operation) ==
    IF insize < minsize \/ (insize % 8) # 0
    THEN [ok |-> FALSE,
          msgs |-> << Msg("error", "key data to %s too small", operation) >>]
    ELSE [ok |-> TRUE, msgs |-> << >>]

\* lines 54-67
checkLength(insize, minsize, operation) ==
    IF insize < minsize
    THEN [ok |-> FALSE,
          msgs |-> << Msg("error", "key data to %s too small", operation) >>]
    ELSE IF (insize % 8) # 0
    THEN [ok |-> FALSE,
          msgs |-> << Msg("error", "key data to %s not aligned", operation) >>]
    ELSE [ok |-> TRUE, msgs |-> << >>]

----------------------------------------------------------------------------
(* OSSLDES::getWrapCipher: the cipher handle (NoCipher for NULL), the     *)
(* messages logged and the EVP getter called                              *)

WrapSel(cipher) == [cipher |-> cipher, msgs |-> << >>, ext |-> << cipher >>]

\* getWrapCipher with the chaining mode confused for 64-bit plain key-wrap
getWrapCipher_swapped(mode, key) ==
    IF ~key.present
    THEN [cipher |-> NoCipher, msgs |-> << >>, ext |-> << >>]
    ELSE IF mode = "DES_KEYWRAP" /\ key.bitLen = 64 THEN WrapSel("EVP_des_cbc")
    ELSE IF mode = "DES_KEYWRAP" /\ key.bitLen = 128 THEN WrapSel("EVP_des_ede_ecb")
    ELSE IF mode = "DES_KEYWRAP" /\ key.bitLen = 192 THEN WrapSel("EVP_des_ede3_ecb")
    ELSE IF mode = "DES_CBC_KEYWRAP" /\ key.bitLen = 64 THEN WrapSel("EVP_des_cbc")
    ELSE IF mode = "DES_CBC_KEYWRAP" /\ key.bitLen = 128 THEN WrapSel("EVP_des_ede_cbc")
    ELSE IF mode = "DES_CBC_KEYWRAP" /\ key.bitLen = 192 THEN WrapSel("EVP_des_ede3_cbc")
    ELSE [cipher |-> NoCipher,
          msgs |-> << Msg("error", "unknown DES key wrap mode %i", mode) >>,
          ext |-> << >>]

\* lines 69-101
getWrapCipher(mode, key) ==
    IF ~key.present
    THEN [cipher |-> NoCipher, msgs |-> << >>, ext |-> << >>]
    ELSE IF mode = "DES_KEYWRAP" /\ key.bitLen = 64 THEN WrapSel("EVP_des_ecb")
    ELSE IF mode = "DES_KEYWRAP" /\ key.bitLen = 128 THEN WrapSel("EVP_des_ede_ecb")
    ELSE IF mode = "DES_KEYWRAP" /\ key.bitLen = 192 THEN WrapSel("EVP_des_ede3_ecb")
    ELSE IF mode = "DES_CBC_KEYWRAP" /\ key.bitLen = 64 THEN WrapSel("EVP_des_cbc")
    ELSE IF mode = "DES_CBC_KEYWRAP" /\ key.bitLen = 128 THEN WrapSel("EVP_des_ede_cbc")
    ELSE IF mode = "DES_CBC_KEYWRAP" /\ key.bitLen = 192 THEN WrapSel("EVP_des_ede3_cbc")
    ELSE [cipher |-> NoCipher,
          msgs |-> << Msg("error", "unknown DES key wrap mode %i", mode) >>,
          ext |-> << >>]

----------------------------------------------------------------------------
(* OSSLDES::getCipher *)

CipherName(variant, mode) ==
    LET m == CASE mode = "CBC" -> "cbc"
               [] mode = "ECB" -> "ecb"
               [] mode = "OFB" -> "ofb"
               [] OTHER -> "cfb"
    IN  CASE variant = 56  -> "EVP_des_" \o m
          [] variant = 112 -> "EVP_des_ede_" \o m
          [] OTHER         -> "EVP_des_ede3_" \o m

Caution(bitLen) ==
    IF bitLen = 56
    THEN << Msg("debug", "CAUTION: use of 56-bit DES keys is not recommended!", "") >>
    ELSE << >>

\* getCipher with the 56-bit test compiled in even under WITH_FIPS
getCipher_ignoreFips(currentKey, currentCipherMode, fips) ==
    IF ~currentKey.present
    THEN [cipher |-> NoCipher, msgs |-> << >>]
    ELSE IF currentKey.bitLen # 56
            /\ currentKey.bitLen # 112 /\ currentKey.bitLen # 168
    THEN [cipher |-> NoCipher,
          msgs |-> << Msg("error", "Invalid DES currentKey length (%d bits)",
                          ToString(currentKey.bitLen)) >>]
    ELSE IF currentCipherMode \in {"CBC", "ECB", "OFB", "CFB"}
    THEN [cipher |-> CipherName(currentKey.bitLen, currentCipherMode),
          msgs |-> Caution(currentKey.bitLen)]
    ELSE [cipher |-> NoCipher,
          msgs |-> Caution(currentKey.bitLen)
                   \o << Msg("error", "Invalid DES cipher mode %i", currentCipherMode) >>]

\* lines 163-239
getCipher(currentKey, currentCipherMode, fips) ==
    IF ~currentKey.present
    THEN [cipher |-> NoCipher, msgs |-> << >>]
    ELSE IF (fips \/ currentKey.bitLen # 56)
            /\ currentKey.bitLen # 112 /\ currentKey.bitLen # 168
    THEN [cipher |-> NoCipher,
          msgs |-> << Msg("error", "Invalid DES currentKey length (%d bits)",
                          ToString(currentKey.bitLen)) >>]
    ELSE IF currentCipherMode \in {"CBC", "ECB", "OFB", "CFB"}
    THEN [cipher |-> CipherName(currentKey.bitLen, currentCipherMode),
          msgs |-> Caution(currentKey.bitLen)]
    ELSE [cipher |-> NoCipher,
          msgs |-> Caution(currentKey.bitLen)
                   \o << Msg("error", "Invalid DES cipher mode %i", currentCipherMode) >>]

----------------------------------------------------------------------------
(* The external block cipher engine.  The DES round function is not part   *)
(* of this program; it is represented by a keyed, invertible transform of  *)
(* one 8-byte block, composed as OpenSSL composes it: single DES, EDE with *)
(* two or three key segments, ECB or CBC chaining with a zero IV (the IV   *)
(* argument of EVP_CipherInit_ex is NULL), padding disabled.               *)

KeySeg(kb, j) == [i \in 1..BlockSize |-> kb[BlockSize * (j - 1) + i]]

E1(k, blk) == [i \in 1..BlockSize |-> AddB(blk[BlockSize + 1 - i], k[i])]
D1(k, blk) == [i \in 1..BlockSize |-> SubB(blk[BlockSize + 1 - i], k[BlockSize + 1 - i])]

IsEde3(cipher) == cipher \in {"EVP_des_ede3_ecb", "EVP_des_ede3_cbc"}
IsEde(cipher) == cipher \in {"EVP_des_ede_ecb", "EVP_des_ede_cbc"}
IsCbc(cipher) == cipher \in {"EVP_des_cbc", "EVP_des_ede_cbc", "EVP_des_ede3_cbc"}

BlockEnc(cipher, kb, blk) ==
    IF IsEde3(cipher)
    THEN E1(KeySeg(kb, 3), D1(KeySeg(kb, 2), E1(KeySeg(kb, 1), blk)))
    ELSE IF IsEde(cipher)
    THEN E1(KeySeg(kb, 1), D1(KeySeg(kb, 2), E1(KeySeg(kb, 1), blk)))
    ELSE E1(KeySeg(kb, 1), blk)

BlockDec(cipher, kb, blk) ==
    IF IsEde3(cipher)
    THEN D1(KeySeg(kb, 1), E1(KeySeg(kb, 2), D1(KeySeg(kb, 3), blk)))
    ELSE IF IsEde(cipher)
    THEN D1(KeySeg(kb, 1), E1(KeySeg(kb, 2), D1(KeySeg(kb, 1), blk)))
    ELSE D1(KeySeg(kb, 1), blk)

ZeroBlock == [i \in 1..BlockSize |-> 0]
AddBlk(a, b) == [i \in 1..BlockSize |-> AddB(a[i], b[i])]
SubBlk(a, b) == [i \in 1..BlockSize |-> SubB(a[i], b[i])]

\* the whole blocks of data, run through the cipher in direction enc
RECURSIVE Chain(_, _, _, _, _)
Chain(cipher, kb, enc, data, prev) ==
    IF Len(data) < BlockSize THEN << >>
    ELSE LET blk  == SubSeq(data, 1, BlockSize)
             rest == SubSeq(data, BlockSize + 1, Len(data))
             o    == IF enc = 1
                     THEN BlockEnc(cipher, kb,
                                   IF IsCbc(cipher) THEN AddBlk(blk, prev) ELSE blk)
                     ELSE LET d == BlockDec(cipher, kb, blk)
                          IN  IF IsCbc(cipher) THEN SubBlk(d, prev) ELSE d
             nxt  == IF enc = 1 THEN o ELSE blk
         IN  o \o Chain(cipher, kb, enc, rest, nxt)

\* EVP_CipherUpdate on a fresh context with padding disabled: the bytes it writes
CipherUpdateBytes(cfg, data) == Chain(cfg.cipher, cfg.key, cfg.enc, data, ZeroBlock)

\* EVP_CipherFinal_ex with padding disabled: fails on a buffered partial block,
\* writes nothing otherwise
CipherFinalOk(data) == Len(data) % BlockSize = 0

----------------------------------------------------------------------------
(* The EVP_CIPHER_CTX heap *)

FreeSlot == [state |-> "free", owner |-> "none",
             cipher |-> NoCipher, key |-> << >>, enc |-> 0, pad |-> TRUE]

\* an EVP call by thread t on context s is a misuse unless s is live and t's own
BadUse(t, s) == ctxs[s].state # "live" \/ ctxs[s].owner # t

----------------------------------------------------------------------------
(* wrapKey / unwrapKey / wrapUnwrapKey *)

IdleCall ==
    [pc |-> "idle", op |-> "none", wrap |-> 0, key |-> NoKey, mode |-> "Unknown",
     in |-> << >>, out0 |-> << >>, out |-> << >>,
     cipher |-> NoCipher, ctx |-> "NULL", rv |-> 0, outLen |-> 0, curBlockLen |-> 0,
     updLen |-> 0, finLen |-> 0,
     ok |-> FALSE, msgs |-> << >>, ext |-> << >>, failedAt |-> "none",
     nalloc |-> 0, nfree |-> 0, chained |-> FALSE, orig |-> << >>]

IsKeyWrapMode(mode) == mode = "DES_KEYWRAP" \/ mode = "DES_CBC_KEYWRAP"

Prefix(wrap) == IF wrap = 0 THEN "un" ELSE ""

\* the size without the - 1 of line 142
ResizeBefore_noSlack(insize, bs) == insize + 2 * bs

\* size the output buffer is given before the input is streamed (line 142)
ResizeBefore(insize, bs) == insize + 2 * bs - 1

\* out.resize(outLen) after a successful finalize
ShrinkOut(out, outLen) == Resize(out, outLen)

\* wrapKey handing 0 to wrapUnwrapKey as unwrapKey does
Direction_alwaysDecrypt(op) == 0

\* direction handed to wrapUnwrapKey by wrapKey ("wrap") and unwrapKey ("unwrap")
Direction(op) == IF op = "wrap" THEN 1 ELSE 0

\* a failure return that also clears the output buffer
Returned_wipesOut(c, ok, at, msgs) ==
    [c EXCEPT !.pc = "done", !.ok = ok, !.failedAt = at, !.msgs = c.msgs \o msgs,
              !.out = << >>]

\* ERROR_MSG(...); return false;
Returned(c, ok, at, msgs) ==
    [c EXCEPT !.pc = "done", !.ok = ok, !.failedAt = at, !.msgs = c.msgs \o msgs]

\* entry of wrapKey / unwrapKey up to the selection of the cipher
Enter(op, key, mode, in, out0, chained, orig) ==
    LET wrap == Direction(op)
        c0  == [IdleCall EXCEPT !.op = op, !.wrap = wrap, !.key = key, !.mode = mode,
                                !.in = in, !.out0 = out0, !.out = out0,
                                !.chained = chained, !.orig = orig]
        chk == IF IsKeyWrapMode(mode)
               THEN checkLength(Len(in), MinWrapLen, op)
               ELSE [ok |-> TRUE, msgs |-> << >>]
        s   == getWrapCipher(mode, key)
    IN  IF ~chk.ok
        THEN Returned(c0, FALSE, "length", chk.msgs)
        ELSE IF s.cipher = NoCipher
        THEN Returned(c0, FALSE, "cipher",
                      s.msgs \o << Msg("error", "Failed to get EVP %swrap cipher",
                                       Prefix(wrap)) >>)
        ELSE [c0 EXCEPT !.pc = "alloc", !.cipher = s.cipher, !.ext = s.ext]

\* the caller's input buffers: every length up to MaxLen
InBuf(n) == [i \in 1..n |-> (17 + 37 * i) % 256]
InBufs == { InBuf(n) : n \in 0..MaxLen }

\* the caller's output buffer before the call: empty, or holding earlier data
OutBufs == { << >>, << 170, 187, 204 >> }

\* inputs of the concurrent callers
ConcKeys == { k \in WrapKeys : k.bitLen \in {0, 64, 192} }
ConcModes == {"AES_KEYWRAP", "DES_KEYWRAP", "DES_CBC_KEYWRAP"}
ConcInBufs == { InBuf(7), InBuf(8) }
ConcOutBufs == { << 170, 187, 204 >> }

InFlight(t) == calls[t].pc \notin {"idle", "done"}

\* wrapKey(key, mode, in, out) or unwrapKey(key, mode, in, out) is called by t
CallWith(t, keys, modes, ins, outs) ==
    /\ calls[t].pc = "idle"
    /\ \E op \in {"wrap", "unwrap"}, key \in keys, mode \in modes,
          in \in ins, out0 \in outs :
          calls' = [calls EXCEPT ![t] = Enter(op, key, mode, in, out0, FALSE, << >>)]
    /\ UNCHANGED <<withFips, ctxs, misuse, sel, gen>>

\* t hands the output of its last successful wrapKey to unwrapKey, same key and mode
CallUnwrapOfWrapped(t) ==
    /\ calls[t].pc = "done" /\ calls[t].ok /\ calls[t].op = "wrap"
    /\ \E out0 \in OutBufs :
          calls' = [calls EXCEPT ![t] =
                       Enter("unwrap", calls[t].key, calls[t].mode, calls[t].out,
                             out0, TRUE, calls[t].in)]
    /\ UNCHANGED <<withFips, ctxs, misuse, sel, gen>>

\* the caller takes the result of t's returned call
Collect(t) ==
    /\ calls[t].pc = "done"
    /\ calls' = [calls EXCEPT ![t] = IdleCall]
    /\ UNCHANGED <<withFips, ctxs, misuse, sel, gen>>

\* lines 120-127: EVP_CIPHER_CTX_new, EVP_CIPHER_CTX_set_flags
AllocCtx(t) ==
    LET c == calls[t] IN
    /\ c.pc = "alloc"
    /\ \/ /\ calls' = [calls EXCEPT ![t] =
                 Returned([c EXCEPT !.ext = c.ext \o << "EVP_CIPHER_CTX_new" >>],
                          FALSE, "alloc",
                          << Msg("error", "Failed to allocate space for EVP_CIPHER_CTX", "") >>)]
          /\ UNCHANGED ctxs
       \/ \E s \in CtxSlots :
          /\ ctxs[s].state = "free"
          /\ ctxs' = [ctxs EXCEPT ![s] = [FreeSlot EXCEPT !.state = "live", !.owner = t]]
          /\ calls' = [calls EXCEPT ![t] =
                 [c EXCEPT !.pc = "init", !.ctx = s, !.nalloc = c.nalloc + 1,
                           !.ext = c.ext \o << "EVP_CIPHER_CTX_new",
                                               "EVP_CIPHER_CTX_set_flags" >>]]
    /\ UNCHANGED <<withFips, misuse, sel, gen>>

\* lines 129-139: EVP_CipherInit_ex, then EVP_CIPHER_CTX_set_padding(ctx, 0)
InitCtx(t) ==
    LET c == calls[t]
        s == c.ctx
        failMsg == << Msg("error", "Failed to initialise EVP cipher %swrap operation",
                          Prefix(c.wrap)) >>
    IN
    /\ c.pc = "init"
    /\ misuse' = (misuse \/ BadUse(t, s))
    /\ \/ \* EVP_CipherInit_ex returns 0
          /\ calls' = [calls EXCEPT ![t] =
                 [c EXCEPT !.pc = "free_init", !.rv = 0, !.failedAt = "init",
                           !.msgs = c.msgs \o failMsg,
                           !.ext = c.ext \o << "EVP_CipherInit_ex" >>]]
          /\ UNCHANGED ctxs
       \/ \* EVP_CipherInit_ex returns 1, EVP_CIPHER_CTX_set_padding returns 0
          /\ calls' = [calls EXCEPT ![t] =
                 [c EXCEPT !.pc = "free_init", !.rv = 0, !.failedAt = "padding",
                           !.msgs = c.msgs \o failMsg,
                           !.ext = c.ext \o << "EVP_CipherInit_ex",
                                               "EVP_CIPHER_CTX_set_padding" >>]]
          /\ ctxs' = [ctxs EXCEPT ![s].cipher = c.cipher, ![s].key = c.key.keyBits,
                                  ![s].enc = c.wrap]
       \/ \* both return 1
          /\ calls' = [calls EXCEPT ![t] =
                 [c EXCEPT !.pc = "update", !.rv = 1,
                           !.ext = c.ext \o << "EVP_CipherInit_ex",
                                               "EVP_CIPHER_CTX_set_padding" >>]]
          /\ ctxs' = [ctxs EXCEPT ![s].cipher = c.cipher, ![s].key = c.key.keyBits,
                                  ![s].enc = c.wrap, ![s].pad = FALSE]
    /\ UNCHANGED <<withFips, sel, gen>>

\* lines 141-147: out.resize, EVP_CIPHER_CTX_block_size, EVP_CipherUpdate
UpdateStep(t) ==
    LET c == calls[t]
        s == c.ctx
        sized == Resize(c.out, ResizeBefore(Len(c.in), BlockSize))
        bytes == CipherUpdateBytes(ctxs[s], c.in)
        extNow == c.ext \o << "EVP_CIPHER_CTX_block_size", "EVP_CipherUpdate" >>
    IN
    /\ c.pc = "update"
    /\ misuse' = (misuse \/ BadUse(t, s))
    /\ \/ \* EVP_CipherUpdate fails
          calls' = [calls EXCEPT ![t] =
              [c EXCEPT !.pc = "free_op", !.rv = 0, !.failedAt = "update",
                        !.out = sized, !.ext = extNow,
                        !.msgs = c.msgs \o << Msg("error", "Failed EVP %swrap operation",
                                                  Prefix(c.wrap)) >>]]
       \/ \* EVP_CipherUpdate returns 1
          calls' = [calls EXCEPT ![t] =
              [c EXCEPT !.pc = "final", !.rv = 1, !.ext = extNow,
                        !.out = WriteAt(sized, 0, bytes),
                        !.curBlockLen = Len(bytes), !.outLen = Len(bytes),
                        !.updLen = Len(bytes)]]
    /\ UNCHANGED <<withFips, ctxs, sel, gen>>

\* lines 148-156: EVP_CipherFinal_ex
FinalStep(t) ==
    LET c == calls[t]
        s == c.ctx
        extNow == c.ext \o << "EVP_CipherFinal_ex" >>
    IN
    /\ c.pc = "final"
    /\ misuse' = (misuse \/ BadUse(t, s))
    /\ \/ \* EVP_CipherFinal_ex fails
          calls' = [calls EXCEPT ![t] =
              [c EXCEPT !.pc = "free_op", !.rv = 0, !.failedAt = "final",
                        !.ext = extNow,
                        !.msgs = c.msgs \o << Msg("error", "Failed EVP %swrap operation",
                                                  Prefix(c.wrap)) >>]]
       \/ \* EVP_CipherFinal_ex returns 1 and writes nothing (padding is disabled)
          /\ CipherFinalOk(c.in)
          /\ calls' = [calls EXCEPT ![t] =
              [c EXCEPT !.pc = "free_ok", !.rv = 1, !.ext = extNow,
                        !.curBlockLen = 0, !.finLen = 0]]
    /\ UNCHANGED <<withFips, ctxs, sel, gen>>

\* EVP_CIPHER_CTX_free on t's context
Freed(t, c) == [c EXCEPT !.nfree = c.nfree + 1,
                         !.ext = c.ext \o << "EVP_CIPHER_CTX_free" >>]

\* FreeStep with the release on the initialisation failure path left out
FreeStep_leakOnInitFail(t) ==
    LET c == calls[t]
        s == c.ctx
    IN
    /\ c.pc \in {"free_init", "free_op", "free_ok"}
    /\ misuse' = (misuse \/ (c.pc # "free_init" /\ BadUse(t, s)))
    /\ ctxs' = IF c.pc = "free_init" THEN ctxs ELSE [ctxs EXCEPT ![s] = FreeSlot]
    /\ \/ /\ c.pc = "free_init"
          /\ calls' = [calls EXCEPT ![t] = [c EXCEPT !.pc = "done", !.ok = FALSE]]
       \/ /\ c.pc = "free_op"
          /\ calls' = [calls EXCEPT ![t] =
                 [Freed(t, c) EXCEPT !.pc = "done", !.ok = FALSE]]
       \/ /\ c.pc = "free_ok"
          /\ calls' = [calls EXCEPT ![t] =
                 [Freed(t, c) EXCEPT !.pc = "done", !.ok = TRUE,
                      !.outLen = c.outLen + c.curBlockLen,
                      !.out = ShrinkOut(c.out, c.outLen + c.curBlockLen)]]
    /\ UNCHANGED <<withFips, sel, gen>>

\* lines 137-138, 154-155, 157-160: EVP_CIPHER_CTX_free and the return
FreeStep(t) ==
    LET c == calls[t]
        s == c.ctx
    IN
    /\ c.pc \in {"free_init", "free_op", "free_ok"}
    /\ misuse' = (misuse \/ BadUse(t, s))
    /\ ctxs' = [ctxs EXCEPT ![s] = FreeSlot]
    /\ \/ /\ c.pc = "free_init"
          /\ calls' = [calls EXCEPT ![t] =
                 [Freed(t, c) EXCEPT !.pc = "done", !.ok = FALSE]]
       \/ /\ c.pc = "free_op"
          /\ calls' = [calls EXCEPT ![t] =
                 [Freed(t, c) EXCEPT !.pc = "done", !.ok = FALSE]]
       \/ /\ c.pc = "free_ok"
          /\ calls' = [calls EXCEPT ![t] =
                 [Freed(t, c) EXCEPT !.pc = "done", !.ok = TRUE,
                      !.outLen = c.outLen + c.curBlockLen,
                      !.out = ShrinkOut(c.out, c.outLen + c.curBlockLen)]]
    /\ UNCHANGED <<withFips, sel, gen>>

----------------------------------------------------------------------------
(* The collaborators of generateKey *)

RECURSIVE PopCount(_)
PopCount(b) == IF b = 0 THEN 0 ELSE (b % 2) + PopCount(b \div 2)

HasOddParity(b) == PopCount(b) % 2 = 1

\* odd.h, odd_parity[b]: the upper seven bits of b with the lowest bit set so that
\* the number of one bits is odd
odd_parity(b) ==
    LET hi == (b \div 2) * 2
    IN  IF PopCount(hi) % 2 = 0 THEN hi + 1 ELSE hi

\* RNG::generateRandom(data, len): fallible; on success data holds len bytes
RandomBytes(n, seed) == [i \in 1..n |-> (seed * (2 * i - 1) + 85 * (i - 1)) % 256]

generateRandom(rng, n) == [ok |-> rng.ok, bytes |-> IF rng.ok THEN RandomBytes(n, rng.seed) ELSE << >>]

\* SymmetricKey::setKeyBits: the key object may reject the bytes; when it accepts
\* them it stores them, and its declared bit length stays
setKeyBits(key, bytes, accept) ==
    IF accept
    THEN [ok |-> TRUE, key |-> [key EXCEPT !.keyBits = bytes]]
    ELSE [ok |-> FALSE, key |-> key]

NoRng == [present |-> FALSE, ok |-> FALSE, seed |-> 0]

----------------------------------------------------------------------------
(* OSSLDES::generateKey: the result, the calls made on the randomness      *)
(* source and on the key, the bytes drawn, the key afterwards and the      *)
(* messages logged (generateKey logs none)                                 *)

GenResult(ok, rngCalls, random, setCalls, key) ==
    [ok |-> ok, rngCalls |-> rngCalls, random |-> random, setCalls |-> setCalls,
     key |-> key, msgs |-> << >>]

\* the key bytes stored as drawn
FixParity_skipped(bytes) == bytes

\* the parity fix of lines 262-266
FixParity(bytes) == [i \in 1..Len(bytes) |-> odd_parity(bytes[i])]

\* number of random bytes requested (line 256)
RandomLen(bitLen) == bitLen \div 7

\* generateKey without the test of lines 248-251
generateKey_noZeroCheck(key, rng, accept) ==
    IF ~rng.present
    THEN GenResult(FALSE, << >>, << >>, << >>, key)
    ELSE LET n == RandomLen(key.bitLen)
             r == generateRandom(rng, n)
         IN  IF ~r.ok
             THEN GenResult(FALSE, << n >>, << >>, << >>, key)
             ELSE LET keyBits == FixParity(r.bytes)
                      st == setKeyBits(key, keyBits, accept)
                  IN  GenResult(st.ok, << n >>, r.bytes, << keyBits >>, st.key)

\* lines 241-269
generateKey(key, rng, accept) ==
    IF ~rng.present
    THEN GenResult(FALSE, << >>, << >>, << >>, key)
    ELSE IF key.bitLen = 0
    THEN GenResult(FALSE, << >>, << >>, << >>, key)
    ELSE LET n == RandomLen(key.bitLen)
             r == generateRandom(rng, n)
         IN  IF ~r.ok
             THEN GenResult(FALSE, << n >>, << >>, << >>, key)
             ELSE LET keyBits == FixParity(r.bytes)
                      st == setKeyBits(key, keyBits, accept)
                  IN  GenResult(st.ok, << n >>, r.bytes, << keyBits >>, st.key)

\* bit lengths a caller declares: none, one byte's worth, the bulk selector's and
\* the key-wrap selector's
GenBitLens == {0, 7, 56, 64, 112, 128, 168, 192}

GenKeys ==
    { MkKey(L, old) : L \in GenBitLens, old \in {<< >>, << 1, 2, 4 >>} }

Rngs ==
    { NoRng, [present |-> TRUE, ok |-> FALSE, seed |-> 0] } \cup
    { [present |-> TRUE, ok |-> TRUE, seed |-> sd] : sd \in 0..MaxSeed }

NotCalled == [called |-> FALSE]

\* no operation is running and no result is waiting to be taken
Quiet == (\A t \in Threads : calls[t].pc = "idle") /\ ~sel.called /\ ~gen.called

\* the caller takes the result of getCipher or generateKey
CollectQuery ==
    /\ sel.called \/ gen.called
    /\ sel' = NotCalled
    /\ gen' = NotCalled
    /\ UNCHANGED <<withFips, calls, ctxs, misuse>>

GenerateKey ==
    /\ Quiet
    /\ \E key \in GenKeys, rng \in Rngs, accept \in BOOLEAN :
          /\ (~rng.present \/ ~rng.ok \/ key.bitLen = 0) => accept
          /\ gen' = [called |-> TRUE, key |-> key, rng |-> rng,
                     res |-> generateKey(key, rng, accept)]
    /\ UNCHANGED <<withFips, calls, ctxs, misuse, sel>>

----------------------------------------------------------------------------
(* getCipher on the object's currentKey and currentCipherMode *)

SelKeys ==
    { NoKey } \cup
    { MkKey(b, KeyBytes((b + 6) \div 7, 5)) : b \in {0, 56, 64, 112, 128, 168, 192, 200} }

GetCipher ==
    /\ Quiet
    /\ \E currentKey \in SelKeys, currentCipherMode \in SymModes :
          sel' = [called |-> TRUE, key |-> currentKey, mode |-> currentCipherMode,
                  res |-> getCipher(currentKey, currentCipherMode, withFips)]
    /\ UNCHANGED <<withFips, calls, ctxs, misuse, gen>>

----------------------------------------------------------------------------
(* Specifications *)

Init ==
    /\ withFips \in BOOLEAN
    /\ calls = [t \in Threads |-> IdleCall]
    /\ ctxs = [s \in CtxSlots |-> FreeSlot]
    /\ misuse = FALSE
    /\ sel = NotCalled
    /\ gen = NotCalled

Call(t) == Quiet /\ CallWith(t, WrapKeys, SymWrapTypes, InBufs, OutBufs)

\* one caller, which runs one operation at a time
Next ==
    \/ Call("t1")
    \/ CallUnwrapOfWrapped("t1")
    \/ AllocCtx("t1")
    \/ InitCtx("t1")
    \/ UpdateStep("t1")
    \/ FinalStep("t1")
    \/ FreeStep("t1")
    \/ Collect("t1")
    \/ GetCipher
    \/ GenerateKey
    \/ CollectQuery

Spec == Init /\ [][Next]_vars

InitConc == Init /\ withFips = FALSE

CallConc(t) == CallWith(t, ConcKeys, ConcModes, ConcInBufs, ConcOutBufs)

\* every thread calls wrapKey / unwrapKey on its own buffers; the steps interleave
NextConc ==
    \E t \in Threads :
        \/ CallConc(t)
        \/ CallUnwrapOfWrapped(t)
        \/ AllocCtx(t)
        \/ InitCtx(t)
        \/ UpdateStep(t)
        \/ FinalStep(t)
        \/ FreeStep(t)
        \/ Collect(t)

SpecConc == InitConc /\ [][NextConc]_vars

----------------------------------------------------------------------------
(* Properties *)

Done(t) == calls[t].pc = "done"

BadWrapLen(n) == n < 8 \/ n % 8 # 0

WrapKeyBits == {64, 128, 192}

\* failures reported by the external engine rather than found by the adapter
EngineFailures == {"alloc", "init", "padding", "update", "final"}

\* C1: in a key-wrap mode, an input shorter than 8 bytes or not a multiple of 8
\* makes wrapKey / unwrapKey return failure with no external call made: no cipher
\* selected, no context allocated, no init / update / final
C1_BadLengthNoPrimitive ==
    \A t \in Threads :
        LET c == calls[t] IN
        (c.pc # "idle" /\ IsKeyWrapMode(c.mode) /\ BadWrapLen(Len(c.in)))
            => /\ c.pc = "done"
               /\ ~c.ok
               /\ c.ext = << >>
               /\ c.cipher = NoCipher
               /\ c.nalloc = 0

C1_Witness ==
    \E t \in Threads :
        /\ Done(t) /\ ~calls[t].ok
        /\ calls[t].mode = "DES_CBC_KEYWRAP" /\ calls[t].key.bitLen = 128
        /\ Len(calls[t].in) = 12 /\ calls[t].op = "unwrap"

\* C2: with a key the key-wrap selector accepts, in either key-wrap mode, on an
\* input whose length is a positive multiple of 8, wrapKey succeeds, and unwrapKey
\* on its output with the same key and mode succeeds and returns the original
\* input, provided the external engine reports no failure
C2_RoundTrip ==
    \A t \in Threads :
        LET c == calls[t] IN
        /\ (/\ Done(t) /\ c.op = "wrap"
            /\ c.key.present /\ c.key.bitLen \in WrapKeyBits
            /\ IsKeyWrapMode(c.mode)
            /\ Len(c.in) > 0 /\ Len(c.in) % 8 = 0
            /\ c.failedAt \notin EngineFailures)
               => c.ok /\ Len(c.out) = Len(c.in)
        /\ (Done(t) /\ c.chained /\ c.failedAt \notin EngineFailures)
               => c.ok /\ c.out = c.orig

C2_Witness ==
    \E t \in Threads :
        /\ Done(t) /\ calls[t].chained /\ calls[t].ok
        /\ calls[t].mode = "DES_CBC_KEYWRAP" /\ calls[t].key.bitLen = 192
        /\ Len(calls[t].orig) = 16 /\ calls[t].out = calls[t].orig
        /\ calls[t].in # calls[t].orig

ExpectedWrapCipher(mode, bits) ==
    CASE mode = "DES_KEYWRAP" /\ bits = 64 -> "EVP_des_ecb"
      [] mode = "DES_KEYWRAP" /\ bits = 128 -> "EVP_des_ede_ecb"
      [] mode = "DES_KEYWRAP" /\ bits = 192 -> "EVP_des_ede3_ecb"
      [] mode = "DES_CBC_KEYWRAP" /\ bits = 64 -> "EVP_des_cbc"
      [] mode = "DES_CBC_KEYWRAP" /\ bits = 128 -> "EVP_des_ede_cbc"
      [] mode = "DES_CBC_KEYWRAP" /\ bits = 192 -> "EVP_des_ede3_cbc"
      [] OTHER -> NoCipher

\* C3: getWrapCipher returns a primitive exactly when the key is present, the mode
\* is one of the two key-wrap modes and the bit length is 64, 128 or 192 (DES,
\* 2-key, 3-key Triple-DES in ECB for plain key-wrap, in CBC for CBC key-wrap);
\* in every other case wrapKey / unwrapKey fail before a context is allocated
C3_WrapSelector ==
    \A t \in Threads :
        LET c == calls[t]
            accepted == c.key.present /\ IsKeyWrapMode(c.mode)
                        /\ c.key.bitLen \in WrapKeyBits
        IN  /\ (c.pc # "idle" /\ c.failedAt # "length")
                  => c.cipher = (IF accepted
                                 THEN ExpectedWrapCipher(c.mode, c.key.bitLen)
                                 ELSE NoCipher)
            /\ (c.pc # "idle" /\ ~accepted)
                  => Done(t) /\ ~c.ok /\ c.nalloc = 0 /\ c.ext = << >>

C3_Witness ==
    \E t \in Threads :
        /\ Done(t) /\ calls[t].ok
        /\ calls[t].mode = "DES_KEYWRAP" /\ calls[t].key.bitLen = 64
        /\ calls[t].cipher = "EVP_des_ecb"

ExpectedCipher(mode, bits) ==
    CASE mode = "CBC" /\ bits = 56  -> "EVP_des_cbc"
      [] mode = "CBC" /\ bits = 112 -> "EVP_des_ede_cbc"
      [] mode = "CBC" /\ bits = 168 -> "EVP_des_ede3_cbc"
      [] mode = "ECB" /\ bits = 56  -> "EVP_des_ecb"
      [] mode = "ECB" /\ bits = 112 -> "EVP_des_ede_ecb"
      [] mode = "ECB" /\ bits = 168 -> "EVP_des_ede3_ecb"
      [] mode = "OFB" /\ bits = 56  -> "EVP_des_ofb"
      [] mode = "OFB" /\ bits = 112 -> "EVP_des_ede_ofb"
      [] mode = "OFB" /\ bits = 168 -> "EVP_des_ede3_ofb"
      [] mode = "CFB" /\ bits = 56  -> "EVP_des_cfb"
      [] mode = "CFB" /\ bits = 112 -> "EVP_des_ede_cfb"
      [] mode = "CFB" /\ bits = 168 -> "EVP_des_ede3_cfb"
      [] OTHER -> NoCipher

\* C4: getCipher returns the single-DES / 2-key / 3-key primitive of the requested
\* chaining mode for every (mode, bit length) in {ECB, CBC, OFB, CFB} x
\* {56, 112, 168}, 56 excluded in a FIPS build, and no primitive otherwise
C4_BulkSelector ==
    sel.called =>
        sel.res.cipher =
            (IF sel.key.present /\ ~(withFips /\ sel.key.bitLen = 56)
             THEN ExpectedCipher(sel.mode, sel.key.bitLen)
             ELSE NoCipher)

C4_Witness ==
    /\ sel.called /\ withFips
    /\ sel.key.present /\ sel.key.bitLen = 56 /\ sel.mode = "OFB"
    /\ sel.res.cipher = NoCipher

HoldsCtx(t) == calls[t].pc \in {"init", "update", "final", "free_init", "free_op", "free_ok"}

\* C5: in every interleaving of wrapKey / unwrapKey calls, a context is allocated
\* by one call and used by that call only, is never used after it is freed, and is
\* freed exactly once before the call returns, on success and on every failure
\* path; a returned call leaves no context of its own live
C5_ContextLifecycle ==
    /\ ~misuse
    /\ \A s \in CtxSlots :
          ctxs[s].state = "live"
              => /\ ctxs[s].owner \in Threads
                 /\ HoldsCtx(ctxs[s].owner)
                 /\ calls[ctxs[s].owner].ctx = s
    /\ \A t \in Threads :
          LET c == calls[t] IN
          /\ HoldsCtx(t)
                => /\ c.ctx \in CtxSlots
                   /\ ctxs[c.ctx].state = "live" /\ ctxs[c.ctx].owner = t
                   /\ c.nalloc = 1 /\ c.nfree = 0
          /\ Done(t)
                => /\ c.nfree = c.nalloc
                   /\ c.nalloc = (IF c.ok \/ c.failedAt \in {"init", "padding", "update", "final"}
                                  THEN 1 ELSE 0)
                   /\ \A s \in CtxSlots : ctxs[s].owner # t

C5_Witness ==
    /\ Done("t1") /\ calls["t1"].failedAt = "padding" /\ calls["t1"].nfree = 1
    /\ calls["t2"].pc = "final" /\ ctxs[calls["t2"].ctx].state = "live"

\* C6: generateKey fails at once without a randomness source or with a declared
\* bit length of zero, asking for no random bytes and not calling setKeyBits; it
\* also fails, leaving the key's bytes unchanged, when the randomness source fails
C6_GenerateKeyPreconditions ==
    gen.called =>
        /\ (~gen.rng.present \/ gen.key.bitLen = 0)
              => /\ ~gen.res.ok
                 /\ gen.res.rngCalls = << >>
                 /\ gen.res.setCalls = << >>
                 /\ gen.res.key = gen.key
        /\ (gen.rng.present /\ ~gen.rng.ok)
              => /\ ~gen.res.ok
                 /\ gen.res.setCalls = << >>
                 /\ gen.res.key = gen.key

C6_Witness ==
    /\ gen.called /\ gen.rng.present /\ gen.rng.ok
    /\ gen.key.bitLen = 0 /\ gen.key.keyBits # << >>
    /\ ~gen.res.ok

\* C7: when generateKey succeeds for a key of declared bit length L, the
\* randomness source was asked for exactly L / 7 bytes, every stored key byte is
\* the parity-table image of the corresponding random byte and has odd parity, and
\* the key still reports bit length L
C7_GeneratedKey ==
    (gen.called /\ gen.res.ok) =>
        LET L == gen.key.bitLen
            kb == gen.res.key.keyBits
        IN  /\ L # 0
            /\ gen.res.rngCalls = << L \div 7 >>
            /\ Len(gen.res.random) = L \div 7
            /\ Len(kb) = L \div 7
            /\ \A i \in 1..Len(kb) :
                  /\ kb[i] = odd_parity(gen.res.random[i])
                  /\ HasOddParity(kb[i])
                  /\ kb[i] \div 2 = gen.res.random[i] \div 2
            /\ gen.res.key.bitLen = L

C7_Witness ==
    /\ gen.called /\ gen.res.ok
    /\ gen.key.bitLen = 64 /\ Len(gen.res.key.keyBits) = 9
    /\ gen.res.key.keyBits # gen.res.random

Streamed(t) ==
    \/ calls[t].pc \in {"final", "free_ok"}
    \/ calls[t].pc = "free_op"
    \/ Done(t) /\ calls[t].failedAt \in {"update", "final"}

\* C8 as stated: before any input is streamed the output buffer is resized to the
\* input length plus twice the block size
C8_AsStated ==
    \A t \in Threads :
        Streamed(t) => Len(calls[t].out) = Len(calls[t].in) + 2 * BlockSize

\* C8 as amended: before any input is streamed the output buffer is resized to the
\* input length plus twice the block size minus one; after a successful finalize
\* it is shrunk to the bytes produced by update plus those produced by finalize,
\* which never exceeds the size allocated
C8_Amended ==
    \A t \in Threads :
        LET c == calls[t] IN
        /\ Streamed(t) => Len(c.out) = Len(c.in) + 2 * BlockSize - 1
        /\ (Done(t) /\ c.ok)
              => /\ Len(c.out) = c.updLen + c.finLen
                 /\ c.outLen = c.updLen + c.finLen
                 /\ Len(c.out) <= Len(c.in) + 2 * BlockSize - 1

C8_Witness ==
    \E t \in Threads :
        /\ calls[t].pc = "free_ok"
        /\ Len(calls[t].in) = 16 /\ calls[t].updLen = 16
        /\ Len(calls[t].out) = 31 /\ calls[t].out0 # << >>

\* C9 as stated: whenever wrapKey / unwrapKey returns failure, the caller's output
\* buffer has the same length and contents as before the call
C9_AsStated ==
    \A t \in Threads :
        (Done(t) /\ ~calls[t].ok) => calls[t].out = calls[t].out0

\* C9 as amended: when wrapKey / unwrapKey fails at the length check, the
\* primitive selection, the context allocation or the initialization, the
\* caller's output buffer is as before the call; when it fails while streaming or
\* finalizing, the buffer has already been resized to the input length plus twice
\* the block size minus one
C9_Amended ==
    \A t \in Threads :
        LET c == calls[t] IN
        (Done(t) /\ ~c.ok) =>
            /\ c.failedAt \in {"length", "cipher", "alloc", "init", "padding",
                               "update", "final"}
            /\ c.failedAt \in {"length", "cipher", "alloc", "init", "padding"}
                  => c.out = c.out0
            /\ c.failedAt \in {"update", "final"}
                  => /\ Len(c.out) = Len(c.in) + 2 * BlockSize - 1
                     /\ c.out # c.out0

C9_Witness ==
    \E t \in Threads :
        /\ Done(t) /\ ~calls[t].ok /\ calls[t].failedAt = "final"
        /\ calls[t].out0 # << >> /\ calls[t].out # calls[t].out0

HasError(msgs) == \E i \in 1..Len(msgs) : msgs[i].level = "error"

\* C10 as stated: every precondition violation or unsupported configuration is
\* reported by a failure result and by at least one diagnostic message
C10_AsStated ==
    /\ \A t \in Threads :
          (Done(t) /\ calls[t].failedAt \in {"length", "cipher"})
              => ~calls[t].ok /\ HasError(calls[t].msgs)
    /\ (sel.called /\ sel.res.cipher = NoCipher) => HasError(sel.res.msgs)
    /\ (gen.called /\ (~gen.rng.present \/ gen.key.bitLen = 0))
          => ~gen.res.ok /\ HasError(gen.res.msgs)

\* C10 as amended: in wrapKey / unwrapKey a bad input length, a missing key and an
\* unmapped key length or mode are reported by a failure result and at least one
\* diagnostic message, with no external call made; for a bad length exactly one
\* message is logged, "too small" below 8 bytes and "not aligned" from 8 bytes on;
\* getCipher logs an error for an unmapped bit length or mode but none for an
\* absent key; generateKey reports a missing randomness source or a zero bit
\* length by its result alone, logging nothing and making no external call
C10_Amended ==
    /\ \A t \in Threads :
          LET c == calls[t] IN
          /\ (Done(t) /\ IsKeyWrapMode(c.mode) /\ Len(c.in) < 8)
                => /\ ~c.ok /\ c.ext = << >>
                   /\ c.msgs = << Msg("error", "key data to %s too small", c.op) >>
          /\ (Done(t) /\ IsKeyWrapMode(c.mode) /\ Len(c.in) >= 8 /\ Len(c.in) % 8 # 0)
                => /\ ~c.ok /\ c.ext = << >>
                   /\ c.msgs = << Msg("error", "key data to %s not aligned", c.op) >>
          /\ (Done(t) /\ ~(c.key.present /\ IsKeyWrapMode(c.mode)
                           /\ c.key.bitLen \in WrapKeyBits))
                => ~c.ok /\ c.ext = << >> /\ HasError(c.msgs)
    /\ sel.called
          => /\ (sel.key.present /\ sel.res.cipher = NoCipher) => HasError(sel.res.msgs)
             /\ ~sel.key.present => sel.res.cipher = NoCipher /\ sel.res.msgs = << >>
    /\ (gen.called /\ (~gen.rng.present \/ gen.key.bitLen = 0))
          => /\ ~gen.res.ok
             /\ gen.res.msgs = << >>
             /\ gen.res.rngCalls = << >> /\ gen.res.setCalls = << >>

C10_Witness ==
    \E t \in Threads :
        /\ Done(t) /\ ~calls[t].ok
        /\ calls[t].mode = "DES_KEYWRAP" /\ Len(calls[t].in) = 9
        /\ calls[t].msgs = << Msg("error", "key data to %s not aligned", calls[t].op) >>

====
